---- MODULE Spec2Model ----
(***************************************************************************)
(* SmartValue scanner core (scanner_core.py): metric sanitizers, the       *)
(* confidence model, the factor scorer and the scan loop.                  *)
(*                                                                         *)
(* Numbers.  A Python float x is the integer x * Unit (four decimals), so  *)
(* 0.032 is 320 and 25.0 is 250000.  Market cap, revenue and operating     *)
(* cash flow are counted in millions of currency units instead (they are   *)
(* only compared with 0, with 500 million, or divided by one another).     *)
(* round(x, n) is round-half-to-even on the exact decimal value; binary    *)
(* floating-point noise is not represented.                                *)
(*                                                                         *)
(* Raw values.  A field of the provider's info / of the metrics dict is    *)
(* None, a number, a numeric string, or a string that does not parse.      *)
(***************************************************************************)
EXTENDS Integers, Sequences, FiniteSets, TLC

Unit == 100 * 100

\* ------------------------------------------------------------------------
\* Raw (dynamically typed) values
\* ------------------------------------------------------------------------
None == [k |-> "none", v |-> 0]
Num(x) == [k |-> "num", v |-> x]
Str(x) == [k |-> "str", v |-> x]
Bad == [k |-> "bad", v |-> 0]

\* Python truthiness of a raw value (None and 0 are falsy, a non-empty
\* string is truthy whatever it spells).
Truthy(x) == \/ x.k = "num" /\ x.v # 0
             \/ x.k \in {"str", "bad"}

\* a `or` b
PyOr(a, b) == IF Truthy(a) THEN a ELSE b

\* currency is a string, or missing
NoCurrency == "<None>"

\* ------------------------------------------------------------------------
\* CONFIG
\* ------------------------------------------------------------------------
Thresholds ==
  [pe_max |-> 25 * Unit, pb_max |-> 35 * (Unit \div 10),
   ev_ebitda_max |-> 18 * Unit, roe_min |-> 8 * (Unit \div 100),
   margin_min |-> 5 * (Unit \div 100), debt_to_equity_max |-> 8 * (Unit \div 10),
   rev_growth_min |-> 3 * (Unit \div 100), dividend_min |-> Unit \div 100]

Weights ==
  [valuation |-> 30 * (Unit \div 100), profitability |-> 30 * (Unit \div 100),
   financial_health |-> 20 * (Unit \div 100), growth |-> 15 * (Unit \div 100),
   dividend |-> 5 * (Unit \div 100)]

\* ------------------------------------------------------------------------
\* HELPERS
\* ------------------------------------------------------------------------
Max2(a, b) == IF a >= b THEN a ELSE b
Min2(a, b) == IF a <= b THEN a ELSE b

RECURSIVE GCD(_, _)
GCD(a, b) == IF b = 0 THEN a ELSE GCD(b, a % b)
LCM(a, b) == (a \div GCD(a, b)) * b

\* nearest integer to n / d (d > 0), ties to the even neighbour
RoundDiv(n, d) ==
  LET q == n \div d
      r == n % d
  IN  IF 2 * r < d THEN q
      ELSE IF 2 * r > d THEN q + 1
      ELSE IF q % 2 = 0 THEN q ELSE q + 1

\* round(x, 1) and round(x, 2)
round1(x) == RoundDiv(x, Unit \div 10) * (Unit \div 10)
round2(x) == RoundDiv(x, Unit \div 100) * (Unit \div 100)

safe_float(x, default) ==
  IF x.k = "none" THEN default
  ELSE IF x.k = "num" THEN x.v
  ELSE IF x.k = "str" THEN x.v
  ELSE default

clamp(v, lo, hi) == Max2(lo, Min2(hi, v))

pct(x) == IF x <= Unit THEN x * 100 ELSE x

\* (variant: the anti-glitch cap at 20 % is missing)
normalize_yield_to_pct_nocap(dy_raw) ==
  LET dy == safe_float(dy_raw, 0)
      pct_val == IF dy > Unit THEN dy ELSE dy * 100
  IN  IF dy <= 0 THEN 0
      ELSE round2(pct_val)

normalize_yield_to_pct(dy_raw) ==
  LET dy == safe_float(dy_raw, 0)
      pct_val == IF dy > Unit THEN dy ELSE dy * 100
  IN  IF dy <= 0 THEN 0
      ELSE IF pct_val > 20 * Unit THEN 0
      ELSE round2(pct_val)

\* (variant: the lower sanity bound is not checked)
sane_multiple_nolo(x_raw, lo, hi) ==
  LET x == safe_float(x_raw, 0)
  IN  IF x <= 0 THEN 0
      ELSE IF x > hi THEN 0
      ELSE x

sane_multiple(x_raw, lo, hi) ==
  LET x == safe_float(x_raw, 0)
  IN  IF x <= 0 THEN 0
      ELSE IF x < lo \/ x > hi THEN 0
      ELSE x

\* debt/equity: above 10 the provider means a percentage
DteRatio(dte) == IF dte > 10 * Unit THEN dte \div 100 ELSE dte

confidence_badge(conf) ==
  IF conf >= 80 * Unit THEN "green"
  ELSE IF conf >= 60 * Unit THEN "yellow"
  ELSE "red"

score_badge(score) ==
  IF score >= 70 * Unit THEN "fire"
  ELSE IF score >= 55 * Unit THEN "check"
  ELSE IF score >= 40 * Unit THEN "warning"
  ELSE "ice"

format_div(div_pct) == IF div_pct <= 0 THEN <<"-">> ELSE <<"%.2f", round2(div_pct)>>

\* ------------------------------------------------------------------------
\* CONFIDENCE MODEL (V3)
\* ------------------------------------------------------------------------
keys == <<"pe", "pb", "ev_ebitda", "roe", "margin", "debt_to_equity",
          "rev_growth", "div_yield">>

\* 1) number of the eight fields that are not None and parse to non-zero
Present(m) ==
  Cardinality({j \in 1..Len(keys) :
                 /\ m[keys[j]].k # "none"
                 /\ safe_float(m[keys[j]], 0) # 0})

\* (variant: the margin check forgets the conversion to percent)
Penalties_margin_ratio(m) ==
  LET pe == safe_float(m.pe, 0)
      pb == safe_float(m.pb, 0)
      ev == safe_float(m.ev_ebitda, 0)
      roe == pct(safe_float(m.roe, 0))
      margin_pct == safe_float(m.margin, 0)
      dte == safe_float(m.debt_to_equity, 0)
      dte_ratio == DteRatio(dte)
      dy == normalize_yield_to_pct(m.div_yield)
      rg_pct == safe_float(m.rev_growth, 0) * 100
  IN  [pe |-> IF pe # 0 /\ (pe < Unit \/ pe > 120 * Unit) THEN 12 ELSE 0,
       pb |-> IF pb # 0 /\ (pb < Unit \div 10 \/ pb > 50 * Unit) THEN 8 ELSE 0,
       ev_ebitda |-> IF ev # 0 /\ (ev < 15 * (Unit \div 10) \/ ev > 80 * Unit)
                     THEN 10 ELSE 0,
       roe |-> IF roe # 0 /\ (roe < -50 * Unit \/ roe > 80 * Unit) THEN 10 ELSE 0,
       margin |-> IF margin_pct # 0 /\ (margin_pct < -30 * Unit \/ margin_pct > 60 * Unit)
                  THEN 10 ELSE 0,
       debt_to_equity |-> IF dte_ratio # 0 /\ dte_ratio > 5 * Unit THEN 10 ELSE 0,
       div_yield |-> IF dy # 0 /\ dy > 12 * Unit THEN 12 ELSE 0,
       rev_growth |-> IF rg_pct # 0 /\ (rg_pct < -50 * Unit \/ rg_pct > 80 * Unit)
                      THEN 8 ELSE 0]

\* 2) the penalty each sanity check adds (0 when the check does not fire)
Penalties(m) ==
  LET pe == safe_float(m.pe, 0)
      pb == safe_float(m.pb, 0)
      ev == safe_float(m.ev_ebitda, 0)
      roe == pct(safe_float(m.roe, 0))
      margin_pct == safe_float(m.margin, 0) * 100
      dte == safe_float(m.debt_to_equity, 0)
      dte_ratio == DteRatio(dte)
      dy == normalize_yield_to_pct(m.div_yield)
      rg_pct == safe_float(m.rev_growth, 0) * 100
  IN  [pe |-> IF pe # 0 /\ (pe < Unit \/ pe > 120 * Unit) THEN 12 ELSE 0,
       pb |-> IF pb # 0 /\ (pb < Unit \div 10 \/ pb > 50 * Unit) THEN 8 ELSE 0,
       ev_ebitda |-> IF ev # 0 /\ (ev < 15 * (Unit \div 10) \/ ev > 80 * Unit)
                     THEN 10 ELSE 0,
       roe |-> IF roe # 0 /\ (roe < -50 * Unit \/ roe > 80 * Unit) THEN 10 ELSE 0,
       margin |-> IF margin_pct # 0 /\ (margin_pct < -30 * Unit \/ margin_pct > 60 * Unit)
                  THEN 10 ELSE 0,
       debt_to_equity |-> IF dte_ratio # 0 /\ dte_ratio > 5 * Unit THEN 10 ELSE 0,
       div_yield |-> IF dy # 0 /\ dy > 12 * Unit THEN 12 ELSE 0,
       rev_growth |-> IF rg_pct # 0 /\ (rg_pct < -50 * Unit \/ rg_pct > 80 * Unit)
                      THEN 8 ELSE 0]

\* (variant: a missing currency costs nothing)
Freshness_nocurrency(m) ==
  LET price == safe_float(m.price, 0)
      mcap == safe_float(m.mcap, 0)
      f1 == 100 - (IF price <= 0 THEN 35 ELSE 0)
      f2 == f1 - (IF mcap <= 0 THEN 25 ELSE 0)
  IN  clamp(f2 * Unit, 0, 100 * Unit)

\* 3) freshness
Freshness(m) ==
  LET price == safe_float(m.price, 0)
      mcap == safe_float(m.mcap, 0)
      f1 == 100 - (IF price <= 0 THEN 35 ELSE 0)
      f2 == f1 - (IF mcap <= 0 THEN 25 ELSE 0)
      f3 == f2 - (IF m.currency \in {NoCurrency, ""} THEN 10 ELSE 0)
  IN  clamp(f3 * Unit, 0, 100 * Unit)

\* (variant: the floor is applied, the cap of 92 is not)
ConfClamp_nocap(conf) == clamp(conf, 35 * Unit, 100 * Unit)

ConfClamp(conf) == clamp(conf, 35 * Unit, 92 * Unit)

quality_confidence(m) ==
  LET completeness == (Present(m) * 100 * Unit) \div Len(keys)
      p == Penalties(m)
      penalties == p.pe + p.pb + p.ev_ebitda + p.roe + p.margin
                   + p.debt_to_equity + p.div_yield + p.rev_growth
      sanity == clamp((100 - penalties) * Unit, 0, 100 * Unit)
      freshness == Freshness(m)
      blend == RoundDiv(4 * completeness + 4 * sanity + 2 * freshness, 10)
      conf == blend - 5 * Unit
  IN  round1(ConfClamp(conf))

\* ------------------------------------------------------------------------
\* SCORER
\* ------------------------------------------------------------------------
Why(text, arg) == [text |-> text, arg |-> arg]

\* clamp(v) with the default bounds 0.0 .. 100.0
clamp100(v) == clamp(v, 0, 100 * Unit)

\* The sanitized values the scorer works on
Sanitized(m) ==
  LET margin == safe_float(m.margin, 0)
      rg == safe_float(m.rev_growth, 0)
  IN  [pe |-> sane_multiple(m.pe, Unit, 120 * Unit),
       pb |-> sane_multiple(m.pb, Unit \div 10, 50 * Unit),
       ev |-> sane_multiple(m.ev_ebitda, 15 * (Unit \div 10), 80 * Unit),
       roe_pct |-> pct(safe_float(m.roe, 0)),
       margin |-> margin,
       margin_pct |-> margin * 100,
       dte_ratio |-> DteRatio(safe_float(m.debt_to_equity, 0)),
       revenue |-> safe_float(m.revenue, 0),
       ocf |-> safe_float(m.ocf, 0),
       rg |-> rg,
       rg_pct |-> rg * 100,
       dy_pct |-> normalize_yield_to_pct(m.div_yield)]

\* 1) VALUATION.  The three terms pe_norm * 0.50, clamp(pb_norm) * 0.30 and
\* clamp(ev_norm) * 0.20 as exact fractions: numerators, in tenths of a
\* point, over the common denominator den.
\* (variant: the first tier reads pe < 10)
PeNorm_tier10(pe, th) ==
  IF 0 < pe /\ pe < th.pe_max
  THEN (IF pe < 10 * Unit THEN 100 ELSE IF pe < 18 * Unit THEN 80 ELSE 60)
  ELSE 0

PeNorm(pe, th) ==
  IF 0 < pe /\ pe < th.pe_max
  THEN (IF pe < 12 * Unit THEN 100 ELSE IF pe < 18 * Unit THEN 80 ELSE 60)
  ELSE 0

ValuationTerms(s, th) ==
  LET den == LCM(th.pb_max, th.ev_ebitda_max)
      pbn == IF 0 < s.pb /\ s.pb < th.pb_max
             THEN clamp(100 * (th.pb_max - s.pb), 0, 100 * th.pb_max)
             ELSE 0
      evn == IF 0 < s.ev /\ s.ev < th.ev_ebitda_max
             THEN clamp(100 * (th.ev_ebitda_max - s.ev), 0, 100 * th.ev_ebitda_max)
             ELSE 0
  IN  [pe |-> PeNorm(s.pe, th) * 5 * den,
       pb |-> 3 * pbn * (den \div th.pb_max),
       ev |-> 2 * evn * (den \div th.ev_ebitda_max),
       den |-> den]

Valuation(s, th) ==
  LET t == ValuationTerms(s, th)
  IN  RoundDiv(t.pe + t.pb + t.ev, t.den) * (Unit \div 10)

ValuationWhy(s, th) ==
  (IF 0 < s.pe /\ s.pe < th.pe_max /\ s.pe < 12 * Unit
     THEN <<Why("PER bas", round1(s.pe))>>
   ELSE IF 0 < s.pe /\ s.pe < th.pe_max /\ s.pe < 18 * Unit
     THEN <<Why("PER raisonnable", round1(s.pe))>>
   ELSE <<>>)
  \o (IF 0 < s.pb /\ s.pb < th.pb_max /\ s.pb < 2 * Unit
        THEN <<Why("P/B cool", round2(s.pb))>> ELSE <<>>)
  \o (IF 0 < s.ev /\ s.ev < th.ev_ebitda_max /\ s.ev < 12 * Unit
        THEN <<Why("EV/EBITDA clean", round1(s.ev))>> ELSE <<>>)

\* 2) PROFITABILITY
\* (variant: the 15% and 10% tiers are exchanged)
RoeTerm_swapped(roe_pct) ==
  IF roe_pct > 0
  THEN (IF roe_pct > 20 * Unit THEN 50 * Unit
        ELSE IF roe_pct > 15 * Unit THEN 30 * Unit
        ELSE IF roe_pct > 10 * Unit THEN 40 * Unit
        ELSE IF roe_pct > 8 * Unit THEN 20 * Unit
        ELSE 0)
  ELSE 0

RoeTerm(roe_pct) ==
  IF roe_pct > 0
  THEN (IF roe_pct > 20 * Unit THEN 50 * Unit
        ELSE IF roe_pct > 15 * Unit THEN 40 * Unit
        ELSE IF roe_pct > 10 * Unit THEN 30 * Unit
        ELSE IF roe_pct > 8 * Unit THEN 20 * Unit
        ELSE 0)
  ELSE 0

\* (variant: margin_norm is not clamped to 0..100)
MarginTerm_unclamped(margin, th) ==
  IF margin > th.margin_min
  THEN ((margin - th.margin_min) * 400) \div 2
  ELSE 0

MarginTerm(margin, th) ==
  IF margin > th.margin_min
  THEN clamp100((margin - th.margin_min) * 400) \div 2
  ELSE 0

Profitability(s, th) == round1(RoeTerm(s.roe_pct) + MarginTerm(s.margin, th))

ProfitabilityWhy(s, th) ==
  (IF s.roe_pct > 20 * Unit THEN <<Why("ROE tres solide", round1(s.roe_pct))>>
   ELSE IF s.roe_pct > 15 * Unit THEN <<Why("ROE solide", round1(s.roe_pct))>>
   ELSE <<>>)
  \o (IF s.margin > th.margin_min /\ s.margin > 12 * (Unit \div 100)
        THEN <<Why("Marges ok", round1(s.margin_pct))>> ELSE <<>>)

\* 3) FINANCIAL HEALTH
DebtTerm(dte_ratio) ==
  IF dte_ratio > 0
  THEN (IF dte_ratio < 3 * (Unit \div 10) THEN 60 * Unit
        ELSE IF dte_ratio < 6 * (Unit \div 10) THEN 42 * Unit
        ELSE IF dte_ratio < 8 * (Unit \div 10) THEN 24 * Unit
        ELSE 0)
  ELSE 0

\* cf_margin = ocf / revenue compared as a fraction
CashflowTerm(revenue, ocf) ==
  IF revenue > 0 /\ ocf > 0
  THEN (IF 100 * ocf > 15 * revenue THEN 40 * Unit
        ELSE IF 100 * ocf > 10 * revenue THEN 28 * Unit
        ELSE IF 100 * ocf > 5 * revenue THEN 16 * Unit
        ELSE 0)
  ELSE 0

Health(s) == round1(DebtTerm(s.dte_ratio) + CashflowTerm(s.revenue, s.ocf))

HealthWhy(s) ==
  (IF s.dte_ratio > 0 /\ s.dte_ratio < 3 * (Unit \div 10)
     THEN <<Why("Dette faible", 0)>> ELSE <<>>)
  \o (IF s.revenue > 0 /\ s.ocf > 0 /\ 100 * s.ocf > 15 * s.revenue
        THEN <<Why("Cashflow solide", 0)>> ELSE <<>>)

\* 4) GROWTH
Growth(rg) ==
  round1(IF rg > 0
         THEN (IF rg > 15 * (Unit \div 100) THEN 100 * Unit
               ELSE IF rg > 10 * (Unit \div 100) THEN 80 * Unit
               ELSE IF rg > 5 * (Unit \div 100) THEN 60 * Unit
               ELSE IF rg > 3 * (Unit \div 100) THEN 40 * Unit
               ELSE 20 * Unit)
         ELSE 0)

GrowthWhy(s) ==
  IF s.rg > 15 * (Unit \div 100) THEN <<Why("Croissance forte", round1(s.rg_pct))>>
  ELSE IF s.rg > 3 * (Unit \div 100) /\ s.rg <= 5 * (Unit \div 100)
    THEN <<Why("Croissance OK", round1(s.rg_pct))>>
  ELSE <<>>

\* 5) DIVIDEND
Dividend(dy_pct) ==
  round1(IF dy_pct > 0
         THEN (IF dy_pct > 5 * Unit THEN 100 * Unit
               ELSE IF dy_pct > 4 * Unit THEN 80 * Unit
               ELSE IF dy_pct > 3 * Unit THEN 60 * Unit
               ELSE IF dy_pct > 2 * Unit THEN 40 * Unit
               ELSE IF dy_pct > 1 * Unit THEN 20 * Unit
               ELSE 0)
         ELSE 0)

DividendWhy(s) ==
  IF s.dy_pct > 5 * Unit THEN <<Why("Dividende eleve", round1(s.dy_pct))>>
  ELSE IF s.dy_pct > 3 * Unit /\ s.dy_pct <= 4 * Unit
    THEN <<Why("Dividende sympa", round1(s.dy_pct))>>
  ELSE <<>>

\* TOTAL: the rounded blocks (tenths of a point) times the weights
Total(d, w) ==
  LET t(x) == x \div (Unit \div 10)
      sum == t(d.valuation) * w.valuation
             + t(d.profitability) * w.profitability
             + t(d.financial_health) * w.financial_health
             + t(d.growth) * w.growth
             + t(d.dividend) * w.dividend
  IN  RoundDiv(sum, Unit) * (Unit \div 10)

\* TAGS
SafeTag(dte_ratio) == dte_ratio # 0 /\ dte_ratio < 6 * (Unit \div 10)

Tags(s) ==
  (IF s.pe # 0 /\ s.pe < 15 * Unit THEN <<"VALUE">> ELSE <<>>)
  \o (IF s.pb # 0 /\ s.pb < 2 * Unit THEN <<"ASSET">> ELSE <<>>)
  \o (IF s.roe_pct > 20 * Unit /\ s.margin > 10 * (Unit \div 100)
        THEN <<"QUALITY">> ELSE <<>>)
  \o (IF SafeTag(s.dte_ratio) THEN <<"SAFE">> ELSE <<>>)
  \o (IF s.rg_pct > 8 * Unit THEN <<"GROWTH">> ELSE <<>>)
  \o (IF s.dy_pct >= 2 * Unit THEN <<"DIVIDEND">> ELSE <<>>)

Has(seq, x) == \E j \in 1..Len(seq) : seq[j] = x

Head2(seq) == SubSeq(seq, 1, Min2(2, Len(seq)))
Head3(seq) == SubSeq(seq, 1, Min2(3, Len(seq)))

Summary(tags) ==
  LET summary_parts ==
        (IF Has(tags, "VALUE") THEN <<"valorisation attractive">> ELSE <<>>)
        \o (IF Has(tags, "QUALITY") THEN <<"business rentable">> ELSE <<>>)
        \o (IF Has(tags, "SAFE") THEN <<"bilan sain">> ELSE <<>>)
        \o (IF Has(tags, "GROWTH") THEN <<"croissance correcte">> ELSE <<>>)
        \o (IF Has(tags, "DIVIDEND") THEN <<"dividende interessant">> ELSE <<>>)
  IN  IF summary_parts # <<>> THEN Head2(summary_parts) ELSE <<"profil equilibre">>

\* SmartValueScorer(th, w).score(m)
score(m, th, w) ==
  LET s == Sanitized(m)
      details == [valuation |-> Valuation(s, th),
                  profitability |-> Profitability(s, th),
                  financial_health |-> Health(s),
                  growth |-> Growth(s.rg),
                  dividend |-> Dividend(s.dy_pct)]
      why == ValuationWhy(s, th) \o ProfitabilityWhy(s, th) \o HealthWhy(s)
             \o GrowthWhy(s) \o DividendWhy(s)
      tags == Tags(s)
  IN  [score |-> Total(details, w),
       details |-> details,
       why |-> Head3(why),
       confidence |-> quality_confidence(m),
       tags |-> tags,
       summary |-> Summary(tags)]

\* ------------------------------------------------------------------------
\* Metrics records
\* ------------------------------------------------------------------------
Metrics(ticker, name, currency, price, mcap, pe, pb, ev, roe, margin, dte, revenue, ocf, rg, dy) ==
  [ticker |-> ticker, name |-> name, currency |-> currency, price |-> price,
   mcap |-> mcap, pe |-> pe, pb |-> pb, ev_ebitda |-> ev, roe |-> roe,
   margin |-> margin, debt_to_equity |-> dte, revenue |-> revenue,
   ocf |-> ocf, rev_growth |-> rg, div_yield |-> dy]

\* d.dddd as a number: whole part and ten-thousandths
F(whole, frac) == Num(whole * Unit + frac)

\* scenario A of the specification
ScenarioA ==
  Metrics("AAA", "Acme", "USD", F(50, 0), Num(2000),
          F(10, 0), F(1, 5000), None, F(0, 2200), F(0, 1800), F(0, 2500),
          None, None, F(0, 1200), F(0, 300))

\* ------------------------------------------------------------------------
\* SCANNER
\* ------------------------------------------------------------------------
\* float values that may be NaN (display columns)
NaN == [k |-> "nan", v |-> 0]

\* safe_float(x, np.nan)
safe_float_nan(x) ==
  IF x.k \in {"num", "str"} THEN Num(x.v) ELSE NaN

\* round(f, 2) and f / 100.0 on a value that may be NaN
round2_nan(f) == IF f.k = "nan" THEN NaN ELSE Num(round2(f.v))
div100_nan(f) == IF f.k = "nan" THEN NaN ELSE Num(f.v \div 100)

\* the provider's info dict for one ticker; NoKey marks an absent key
NoKey == "<absent>"
NoInfo == [none |-> TRUE]
NoMetrics == [none |-> TRUE]

\* arguments in the order of the keys fetch_metrics reads
Info(rmp, cp, mc, ln, sn, cur, tpe, fpe, ptb, eve, roe, pm, dte, rev, ocf, rg, dy) ==
  [regularMarketPrice |-> rmp, currentPrice |-> cp, marketCap |-> mc,
   longName |-> ln, shortName |-> sn, currency |-> cur, trailingPE |-> tpe,
   forwardPE |-> fpe, priceToBook |-> ptb, enterpriseToEbitda |-> eve,
   returnOnEquity |-> roe, profitMargins |-> pm, debtToEquity |-> dte,
   totalRevenue |-> rev, operatingCashflow |-> ocf, revenueGrowth |-> rg,
   dividendYield |-> dy]

\* names are strings; the empty string and NoCurrency (None) are falsy
StrOr(a, b) == IF a \notin {NoCurrency, ""} THEN a ELSE b

\* len() of the strings that occur as names
LongName == "Very Long Company Name Holdings International plc"
len(str) == IF str = LongName THEN 49 ELSE IF str = "Acme" THEN 4 ELSE 3

\* market cap floor, in millions
MCAP_MIN == 500

\* retry_get_info: attempts[j] is what the j-th provider call produces,
\* Raises (the call raises), ShortDict (a dict of at most 5 keys) or an info
\* dict; the first usable dict is returned, None after `tries` failures.
tries == 3
Raises == [fail |-> "exception"]
ShortDict == [fail |-> "len(info) <= 5"]

RECURSIVE retry_loop(_, _)
retry_loop(attempts, j) ==
  IF j > tries THEN NoInfo
  ELSE IF attempts[j] \notin {Raises, ShortDict} THEN attempts[j]
  ELSE retry_loop(attempts, j + 1)

retry_get_info(attempts) == retry_loop(attempts, 1)

\* (variant: the implausible-price cap is missing)
PriceOk_nocap(price) == ~(price <= 0)

PriceOk(price) == ~(price <= 0 \/ price > 10000 * Unit)

fetch_metrics(ticker, attempts) ==
  LET info == retry_get_info(attempts)
  IN  IF info = NoInfo THEN NoMetrics
      ELSE
        LET price == safe_float(PyOr(info.regularMarketPrice, info.currentPrice), 0)
            mcap == safe_float(info.marketCap, 0)
        IN  IF ~PriceOk(price) THEN NoMetrics
            ELSE IF mcap < MCAP_MIN THEN NoMetrics
            ELSE Metrics(ticker,
                         StrOr(info.longName, StrOr(info.shortName, ticker)),
                         IF info.currency = NoKey THEN "USD" ELSE info.currency,
                         Num(price), Num(mcap),
                         PyOr(info.trailingPE, info.forwardPE),
                         info.priceToBook, info.enterpriseToEbitda,
                         info.returnOnEquity, info.profitMargins,
                         info.debtToEquity, info.totalRevenue,
                         info.operatingCashflow, info.revenueGrowth,
                         info.dividendYield)

\* the record scan appends for a ticker that passed both filters; pos is
\* the position of its (sector, ticker) pair in the flattened universe
ResultRecord(m, sector, pos, r) ==
  LET div_pct == normalize_yield_to_pct(m.div_yield)
  IN  [pos |-> pos,
       Ticker |-> m.ticker,
       Societe |-> IF len(m.name) > 45 THEN <<m.name, "[:45]", "...">> ELSE <<m.name>>,
       Secteur |-> sector,
       Prix |-> round2(m.price.v),
       Devise |-> m.currency,
       PER |-> IF safe_float(m.pe, 0) # 0
               THEN round2_nan(safe_float_nan(m.pe)) ELSE NaN,
       PB |-> IF safe_float(m.pb, 0) # 0
              THEN round2_nan(safe_float_nan(m.pb)) ELSE NaN,
       EV_EBITDA |-> IF safe_float(m.ev_ebitda, 0) # 0
                     THEN round2_nan(safe_float_nan(m.ev_ebitda)) ELSE NaN,
       ROE |-> IF safe_float(m.roe, 0) # 0
               THEN Num(round1(pct(safe_float(m.roe, 0)))) ELSE NaN,
       Marge |-> IF safe_float(m.margin, 0) # 0
                 THEN Num(round1(safe_float(m.margin, 0) * 100)) ELSE NaN,
       Dette_Equity |-> IF safe_float(m.debt_to_equity, 0) > 10 * Unit
                        THEN round2_nan(div100_nan(safe_float_nan(m.debt_to_equity)))
                        ELSE round2_nan(safe_float_nan(m.debt_to_equity)),
       Div |-> Num(div_pct),
       Div_affichage |-> format_div(div_pct),
       Croissance_CA |-> IF safe_float(m.rev_growth, 0) # 0
                         THEN Num(round1(safe_float(m.rev_growth, 0) * 100))
                         ELSE Num(0),
       Score |-> r.score,
       Confiance |-> r.confidence,
       Score_badge |-> score_badge(r.score),
       Confiance_badge |-> confidence_badge(r.confidence),
       Tags |-> r.tags,
       Resume |-> r.summary,
       Pourquoi |-> r.why,
       Bloc_valuation |-> r.details.valuation,
       Bloc_rentabilite |-> r.details.profitability,
       Bloc_sante |-> r.details.financial_health,
       Bloc_croissance |-> r.details.growth,
       Bloc_dividende |-> r.details.dividend]

\* results.sort(key=Score, reverse=True): a stable sort, descending
\* (variant: a sort that moves a record in front of its equals)
Before_strict(a, b) == a.Score > b.Score

Before(a, b) == a.Score >= b.Score

RECURSIVE InsertSorted(_, _)
InsertSorted(sorted, x) ==
  IF sorted = <<>> THEN <<x>>
  ELSE LET last == sorted[Len(sorted)]
       IN  IF Before(last, x) THEN Append(sorted, x)
           ELSE Append(InsertSorted(SubSeq(sorted, 1, Len(sorted) - 1), x), last)

RECURSIVE SortFrom(_, _, _)
SortFrom(seq, j, acc) ==
  IF j > Len(seq) THEN acc ELSE SortFrom(seq, j + 1, InsertSorted(acc, seq[j]))

sort_by_score(seq) == SortFrom(seq, 1, <<>>)

\* [(sector, t) for sector, lst in universe.items() for t in lst]
RECURSIVE Flatten(_, _)
Flatten(u, j) ==
  IF j > Len(u) THEN <<>>
  ELSE [n \in 1..Len(u[j].tickers) |->
          [sector |-> u[j].sector, ticker |-> u[j].tickers[n]]]
       \o Flatten(u, j + 1)

tickers(u) == Flatten(u, 1)

\* to_email_markdown: the text as the list of the strings that are joined
\* with "\n", each a line kind and the values formatted into it
Line(kind, args) == [kind |-> kind, args |-> args]

IsNaN(x) == x.k = "nan"

\* the lines of the i-th block, for record r
Block(i, r) ==
  <<Line("## heading", <<i, r.Score_badge, r.Ticker, r.Secteur, r.Score,
                         r.Confiance_badge, r.Confiance>>),
    Line("- Prix", <<r.Prix, r.Devise>>)>>
  \o (IF ~IsNaN(r.PER) THEN <<Line("- PER", <<r.PER, r.ROE, r.Marge>>)>> ELSE <<>>)
  \o <<Line("- Dette/Equity", <<r.Dette_Equity, r.Div_affichage, r.Croissance_CA>>),
       Line("- Tags", r.Tags),
       Line("- Resume", r.Resume),
       Line("- Pourquoi", r.Pourquoi)>>

RECURSIVE Blocks(_, _)
Blocks(top, i) ==
  IF i > Len(top) THEN <<>> ELSE Block(i, top[i]) \o Blocks(top, i + 1)

\* results[:top_n], top_n >= 0
Slice(res, n) == SubSeq(res, 1, Min2(n, Len(res)))

\* (variant: the whole list is printed, top_n is not applied)
to_email_markdown_all(res, n) ==
  <<Line("# title", <<>>)>> \o Blocks(res, 1) \o <<Line("> disclaimer", <<>>)>>

to_email_markdown(res, n) ==
  <<Line("# title", <<>>)>> \o Blocks(Slice(res, n), 1) \o <<Line("> disclaimer", <<>>)>>

\* the values of top_n tried: 0, the default 5 (more than the records
\* there can be) and 2 (fewer than, as many as, or more than the records)
TopNs == {0, 2, 5}

\* ------------------------------------------------------------------------
\* Inputs of the scan: what the provider may answer for a ticker
\* ------------------------------------------------------------------------
\* scenario A as the provider reports it (68.9 points, confidence 90)
InfoA ==
  Info(F(50, 0), None, Num(2000), "Acme", NoCurrency, NoKey,
       F(10, 0), None, F(1, 5000), None, F(0, 2200), F(0, 1800), F(0, 2500),
       None, None, F(0, 1200), F(0, 300))

\* the same metrics through the fallback keys (currentPrice, forwardPE,
\* shortName): the same score and confidence as InfoA
InfoA2 ==
  Info(Num(0), F(50, 0), Str(2000), "", LongName, "EUR",
       None, F(10, 0), F(1, 5000), None, F(0, 2200), F(0, 1800), F(0, 2500),
       None, None, F(0, 1200), F(0, 300))

\* every field good (high score, confidence capped at 92)
InfoTop ==
  Info(F(120, 0), None, Num(500), "", "", "USD",
       F(8, 0), None, F(0, 9000), F(5, 0), F(25, 0), F(0, 3000), F(20, 0),
       Num(1000), Num(200), F(0, 2000), F(5, 5000))

\* only an expensive P/E (0 points, confidence 60)
InfoSparse ==
  Info(F(10000, 0), None, Num(900), "Acme", NoCurrency, NoCurrency,
       F(30, 0), None, None, None, None, None, None,
       None, None, None, None)

\* implausible but well scored (65 points, confidence 64)
InfoOdd ==
  Info(F(7, 0), None, Num(900), "Acme", NoCurrency, "USD",
       F(10, 0), None, None, None, F(85, 0), F(0, 7000), None,
       Bad, None, F(0, 9000), F(15, 0))

\* no EV/EBITDA, no cash flow, no growth, no dividend (63.7 points,
\* confidence 80)
InfoLean ==
  Info(F(30, 0), None, Num(800), "Acme", NoCurrency, "USD",
       F(8, 0), None, F(0, 9000), None, F(25, 0), F(0, 3000), F(20, 0),
       None, None, None, None)

\* unavailable: no price, implausible price, small capitalisation
InfoNoPrice == [InfoA EXCEPT !.regularMarketPrice = None, !.currentPrice = Num(0)]
InfoPricey == [InfoA EXCEPT !.regularMarketPrice = F(10000, 1)]
InfoSmall == [InfoA EXCEPT !.marketCap = Num(499)]

Infos ==
  {InfoA, InfoA2, InfoTop, InfoSparse, InfoOdd, InfoLean, InfoNoPrice, InfoPricey,
   InfoSmall}

\* the attempt sequences of retry_get_info: k failing calls, then info
AttemptSeqs ==
  {[j \in 1..tries |-> IF j <= k THEN f ELSE info] :
     k \in 0..tries, f \in {Raises, ShortDict}, info \in Infos}

\* universes: the first n symbols of TickerSeq, the first `cut` of them in
\* sector Tech and the rest in sector Finance (one symbol occurs twice)
MaxTickers == 3
TickerSeq == <<"AAA", "BBB", "AAA", "CCC", "BBB", "DDD">>

Universe(n, cut) ==
  <<[sector |-> "Tech", tickers |-> SubSeq(TickerSeq, 1, cut)],
    [sector |-> "Finance", tickers |-> SubSeq(TickerSeq, cut + 1, n)]>>

\* the sector boundary is before the first symbol, after it, or at the end
Universes ==
  {<<>>} \cup UNION {{Universe(n, cut) : cut \in {0, 1, n} \cap (0..n)} :
                       n \in 0..MaxTickers}

\* (min_score, min_confidence): the defaults, and a stricter scan
ScanArgs == {<<35 * Unit, 50 * Unit>>, <<65 * Unit, 70 * Unit>>}

\* ------------------------------------------------------------------------
\* State
\* ------------------------------------------------------------------------
VARIABLES
  universe,        \* SmartValueScanner.universe
  w,               \* SmartValueScorer.w
  min_score,       \* argument of scan
  min_confidence,  \* argument of scan
  pc,              \* where scan is: "fetch", "score", "done"
                   \* (a lone call of score: "input", "scored";
                   \* a lone call of to_email_markdown: "list", "text")
  idx,             \* index of the current pair in tickers (1-based)
  m,               \* the metrics of the current pair, or NoMetrics
  results,         \* the list scan builds
  requests,        \* history: the fetch_metrics calls, [pos, info, skipped];
                   \* info is what retry_get_info returned to the call,
                   \* skipped whether the call returned None
  out,             \* what score returned last, or NoOut
  top_n,           \* argument of to_email_markdown
  digest           \* the lines to_email_markdown returned, or NoDigest

vars ==
  <<universe, w, min_score, min_confidence, pc, idx, m, results, requests, out,
    top_n, digest>>

NoOut == [none |-> TRUE]
NoDigest == <<>>

\* ------------------------------------------------------------------------
\* scan(min_score, min_confidence)
\* ------------------------------------------------------------------------
InitScan ==
  /\ universe \in Universes
  /\ w = Weights
  /\ \E a \in ScanArgs : min_score = a[1] /\ min_confidence = a[2]
  /\ pc = "fetch"
  /\ idx = 1
  /\ m = NoMetrics
  /\ results = <<>>
  /\ requests = <<>>
  /\ out = NoOut
  /\ top_n = 5
  /\ digest = NoDigest

\* (variant: a pair whose metrics are unavailable is requested again)
Fetch_again ==
  /\ pc = "fetch"
  /\ idx <= Len(tickers(universe))
  /\ \E attempts \in AttemptSeqs :
       LET got == fetch_metrics(tickers(universe)[idx].ticker, attempts)
       IN  /\ requests' = Append(requests, [pos |-> idx,
                                           info |-> retry_get_info(attempts),
                                           skipped |-> (got = NoMetrics)])
           /\ IF got = NoMetrics
              THEN /\ m' = NoMetrics
                   /\ idx' = IF Len(requests) < idx THEN idx ELSE idx + 1
                   /\ pc' = "fetch"
              ELSE /\ m' = got
                   /\ idx' = idx
                   /\ pc' = "score"
  /\ UNCHANGED <<universe, w, min_score, min_confidence, results, out, top_n, digest>>

\* m = self.fetch_metrics(t); if not m: continue
Fetch ==
  /\ pc = "fetch"
  /\ idx <= Len(tickers(universe))
  /\ \E attempts \in AttemptSeqs :
       LET got == fetch_metrics(tickers(universe)[idx].ticker, attempts)
       IN  /\ requests' = Append(requests, [pos |-> idx,
                                           info |-> retry_get_info(attempts),
                                           skipped |-> (got = NoMetrics)])
           /\ IF got = NoMetrics
              THEN /\ m' = NoMetrics
                   /\ idx' = idx + 1
                   /\ pc' = "fetch"
              ELSE /\ m' = got
                   /\ idx' = idx
                   /\ pc' = "score"
  /\ UNCHANGED <<universe, w, min_score, min_confidence, results, out, top_n, digest>>

\* (variant: the confidence filter is missing)
Keep_score_only(r, minScore, minConfidence) == ~(r.score < minScore)

Keep(r, minScore, minConfidence) ==
  ~(r.confidence < minConfidence) /\ ~(r.score < minScore)

\* score, the two filters, results.append(...)
ScoreAndFilter ==
  /\ pc = "score"
  /\ \E r \in {score(m, Thresholds, w)} :
       /\ out' = r
       /\ results' = IF Keep(r, min_score, min_confidence)
                     THEN Append(results,
                                 ResultRecord(m, tickers(universe)[idx].sector, idx, r))
                     ELSE results
  /\ idx' = idx + 1
  /\ pc' = "fetch"
  /\ m' = NoMetrics
  /\ UNCHANGED <<universe, w, min_score, min_confidence, requests, top_n, digest>>

\* results.sort(key=Score, reverse=True); return results
SortAndReturn ==
  /\ pc = "fetch"
  /\ idx > Len(tickers(universe))
  /\ results' = sort_by_score(results)
  /\ pc' = "done"
  /\ UNCHANGED <<universe, w, min_score, min_confidence, idx, m, requests, out,
                 top_n, digest>>

NextScan == Fetch \/ ScoreAndFilter \/ SortAndReturn

Spec == InitScan /\ [][NextScan]_vars

\* The loop has no blocking step: the provider call returns (retry_get_info
\* gives up after `tries` calls), the loop body runs to its end, the sort
\* returns.  ScoreStep is the step ScoreAndFilter takes, told by the
\* position alone.
ScoreStep == pc = "score" /\ pc' = "fetch"

FairSpec ==
  Spec /\ WF_vars(Fetch) /\ WF_pc(ScoreStep) /\ WF_vars(SortAndReturn)

\* ------------------------------------------------------------------------
\* A lone call of score(m): the inputs
\* ------------------------------------------------------------------------
\* numbers given in ten-thousandths
Nums(set) == {Num(x) : x \in set}

\* per field: absent, plausible, implausible
CoarsePE == {None, F(10, 0), F(125, 0)}
CoarsePB == {None, F(1, 5000), F(60, 0)}
CoarseEV == {None, F(5, 0), F(90, 0)}
CoarseROE == {None, F(0, 2200), F(85, 0)}
CoarseMargin == {None, F(0, 1800), F(0, 7000)}
CoarseDTE == {None, F(0, 2500), F(600, 0)}
CoarseRG == {None, F(0, 1200), F(0, 9000)}
CoarseDY == {None, F(0, 300), F(15, 0)}
\* price, mcap, currency
Fresh == {<<F(50, 0), Num(2000), "USD">>, <<None, None, NoCurrency>>,
          <<F(-1, 0), Num(0), "">>}

CoarseInputs ==
  {Metrics("AAA", "Acme", f[3], f[1], f[2], pe, pb, ev, roe, margin, dte,
           None, None, rg, dy) :
     f \in Fresh, pe \in CoarsePE, pb \in CoarsePB, ev \in CoarseEV,
     roe \in CoarseROE, margin \in CoarseMargin, dte \in CoarseDTE,
     rg \in CoarseRG, dy \in CoarseDY}

\* per field: the values around every cut-off of the code
WidePE ==
  {None, Bad, Str(10 * Unit)} \cup
  Nums({-50000, 0, 5000, 9999, 10000, 10001, 100000, 119999, 120000, 149999,
        150000, 179999, 180000, 249999, 250000, 300000, 1199999, 1200000,
        1200001, 1250000})
WidePB ==
  {None, Bad, Str(15000)} \cup
  Nums({-10000, 0, 500, 999, 1000, 1001, 10000, 19999, 20000, 34999, 35000,
        100000, 500000, 500001, 600000})
WideEV ==
  {None, Bad} \cup
  Nums({-10000, 0, 10000, 14999, 15000, 15001, 50000, 119999, 120000,
        179999, 180000, 800000, 800001, 900000})
WideROE ==
  {None, Bad} \cup
  Nums({-600000, -6000, -5001, -5000, -4000, 0, 50, 800, 801, 1000, 1001,
        1500, 1501, 2000, 2001, 2200, 8000, 8001, 10000, 10001, 10100,
        80000, 90000, 150000, 160000, 210000, 800000, 850000})
WideMargin ==
  {None, Bad} \cup
  Nums({-4000, -3001, -3000, -2000, 0, 500, 501, 1000, 1001, 1200, 1201,
        1800, 3000, 6000, 6001, 7000, 700000})
WideDTE ==
  {None, Bad} \cup
  Nums({-5000, 0, 1, 2500, 2999, 3000, 5999, 6000, 7999, 8000, 50000,
        50100, 100000, 100100, 250000, 450000, 590000, 600000, 5000000,
        5010000, 6000000})
WideRG ==
  {None, Bad} \cup
  Nums({-6000, -5001, -5000, 0, 100, 300, 301, 500, 501, 800, 801, 1000,
        1001, 1500, 1501, 8000, 8001, 9000})
WideDY ==
  {None, Bad, Str(320)} \cup
  Nums({-100, 0, 50, 100, 101, 200, 201, 300, 320, 400, 401, 500, 501, 1200,
        1201, 2000, 2001, 10000, 10001, 19949, 19950, 19951, 20000, 32000,
        32049, 32050, 32051, 120000, 120100, 200000, 200001, 250000})
WideCash ==
  {<<None, None>>, <<Num(1000), None>>, <<None, Num(5)>>, <<Bad, Num(5)>>,
   <<Num(0), Num(5)>>, <<Num(-1), Num(5)>>, <<Num(1000), Num(-5)>>,
   <<Num(1000), Num(0)>>, <<Num(1000), Num(50)>>, <<Num(1000), Num(51)>>,
   <<Num(1000), Num(100)>>, <<Num(1000), Num(101)>>, <<Num(1000), Num(150)>>,
   <<Num(1000), Num(151)>>, <<Str(1000), Str(200)>>}
WidePrice == {None, Bad, Num(0), F(-1, 0), F(50, 0)}
WideMcap == {None, Bad, Num(0), Num(-1), Num(2000)}
WideCurrency == {"USD", "", NoCurrency}

\* the records the fine values are tried in: scenario A, every field
\* missing, every field present and plausible
AllMissing ==
  Metrics("AAA", "Acme", NoCurrency, None, None, None, None, None, None,
          None, None, None, None, None, None)
AllGood ==
  Metrics("AAA", "Acme", "USD", F(120, 0), Num(500), F(8, 0), F(0, 9000),
          F(5, 0), F(25, 0), F(0, 3000), F(20, 0), Num(1000), Num(200),
          F(0, 2000), F(5, 5000))
Bases == {ScenarioA, AllMissing, AllGood}

FineInputs ==
  UNION {
    {[b EXCEPT !.pe = x] : x \in WidePE} \cup
    {[b EXCEPT !.pb = x] : x \in WidePB} \cup
    {[b EXCEPT !.ev_ebitda = x] : x \in WideEV} \cup
    {[b EXCEPT !.roe = x] : x \in WideROE} \cup
    {[b EXCEPT !.margin = x] : x \in WideMargin} \cup
    {[b EXCEPT !.debt_to_equity = x] : x \in WideDTE} \cup
    {[b EXCEPT !.rev_growth = x] : x \in WideRG} \cup
    {[b EXCEPT !.div_yield = x] : x \in WideDY} \cup
    {[b EXCEPT !.revenue = c[1], !.ocf = c[2]] : c \in WideCash} \cup
    {[b EXCEPT !.price = x] : x \in WidePrice} \cup
    {[b EXCEPT !.mcap = x] : x \in WideMcap} \cup
    {[b EXCEPT !.currency = x] : x \in WideCurrency}
    : b \in Bases}

MetricInputs == CoarseInputs \cup FineInputs

\* weights: the defaults, five equal weights, everything on one block, and
\* weights that break the contract (they sum to 1.5)
WeightSets ==
  {Weights,
   [valuation |-> Unit \div 2, profitability |-> Unit \div 2,
    financial_health |-> Unit \div 2, growth |-> 0, dividend |-> 0],
   [valuation |-> Unit \div 5, profitability |-> Unit \div 5,
    financial_health |-> Unit \div 5, growth |-> Unit \div 5,
    dividend |-> Unit \div 5],
   [valuation |-> 0, profitability |-> Unit, financial_health |-> 0,
    growth |-> 0, dividend |-> 0]}

InitScore ==
  /\ universe = <<>>
  /\ w \in WeightSets
  /\ min_score = 0
  /\ min_confidence = 0
  /\ pc = "input"
  /\ idx = 0
  /\ m \in MetricInputs
  /\ results = <<>>
  /\ requests = <<>>
  /\ out = NoOut
  /\ top_n = 5
  /\ digest = NoDigest

\* SmartValueScorer(Thresholds(), w).score(m)
ApplyScore ==
  /\ pc = "input"
  /\ out' = score(m, Thresholds, w)
  /\ pc' = "scored"
  /\ UNCHANGED <<universe, w, min_score, min_confidence, idx, m, results, requests,
                 top_n, digest>>

NextScore == ApplyScore

ScoreSpec == InitScore /\ [][NextScore]_vars

\* ------------------------------------------------------------------------
\* A lone call of to_email_markdown(results, top_n): the inputs
\* ------------------------------------------------------------------------
\* the record scan builds for the pair at position pos when the provider
\* answers info (the pairs alternate between two sectors and tickers)
RecordFor(info, pos) ==
  LET t == TickerSeq[pos]
      mm == fetch_metrics(t, [j \in 1..tries |-> info])
  IN  ResultRecord(mm, IF pos % 2 = 1 THEN "Tech" ELSE "Finance", pos,
                   score(mm, Thresholds, Weights))

\* the provider answers for which fetch_metrics returns metrics
KeptInfos == {InfoA, InfoA2, InfoTop, InfoSparse, InfoOdd, InfoLean}

\* the lists a scan without minimums returns for up to MaxTickers pairs
ResultLists ==
  UNION {{sort_by_score([pos \in 1..n |-> RecordFor(f[pos], pos)]) :
            f \in [1..n -> KeptInfos]} : n \in 0..MaxTickers}

InitDigest ==
  /\ universe = <<>>
  /\ w = Weights
  /\ min_score = 0
  /\ min_confidence = 0
  /\ pc = "list"
  /\ idx = 0
  /\ m = NoMetrics
  /\ results \in ResultLists
  /\ requests = <<>>
  /\ out = NoOut
  /\ top_n \in TopNs
  /\ digest = NoDigest

\* SmartValueScanner.to_email_markdown(results, top_n)
ToEmailMarkdown ==
  /\ pc = "list"
  /\ digest' = to_email_markdown(results, top_n)
  /\ pc' = "text"
  /\ UNCHANGED <<universe, w, min_score, min_confidence, idx, m, results, requests,
                 out, top_n>>

NextDigest == ToEmailMarkdown

DigestSpec == InitDigest /\ [][NextDigest]_vars

\* ========================================================================
\* Properties
\* ========================================================================
Scored == pc = "scored"
Done == pc = "done"

ValidWeights(ww) ==
  /\ ww.valuation >= 0 /\ ww.profitability >= 0 /\ ww.financial_health >= 0
  /\ ww.growth >= 0 /\ ww.dividend >= 0
  /\ ww.valuation + ww.profitability + ww.financial_health + ww.growth
       + ww.dividend = Unit

InRange(x) == 0 <= x /\ x <= 100 * Unit

\* C1: whatever the metrics record, the confidence score returns lies in
\* the closed interval [35, 92].
C1_ConfidenceRange ==
  Scored => (35 * Unit <= out.confidence /\ out.confidence <= 92 * Unit)

\* all eight fields present and plausible, fresh price data: the blend is
\* 95 - 5 and the cap brings it to 92
C1_Witness ==
  /\ Scored
  /\ Present(m) = 8
  /\ \A j \in 1..Len(keys) : Penalties(m)[keys[j]] = 0
  /\ Freshness(m) = 100 * Unit
  /\ out.confidence = 92 * Unit

\* C2: with non-negative weights that sum to 1.0, each of the five
\* sub-scores and the total score lie in [0, 100].
C2_ScoreRange ==
  (Scored /\ ValidWeights(w)) =>
    /\ InRange(out.details.valuation)
    /\ InRange(out.details.profitability)
    /\ InRange(out.details.financial_health)
    /\ InRange(out.details.growth)
    /\ InRange(out.details.dividend)
    /\ InRange(out.score)

\* a margin of 70% (margin_norm 260, clamped) in a record whose blocks
\* other than valuation are all at 100
C2_Witness ==
  /\ Scored
  /\ w = Weights
  /\ safe_float(m.margin, 0) > 30 * (Unit \div 100)
  /\ out.details.profitability = 100 * Unit
  /\ out.details.financial_health = 100 * Unit
  /\ out.details.growth = 100 * Unit
  /\ out.details.dividend = 100 * Unit
  /\ out.score > 90 * Unit

\* what scan would get for a logged request: the metrics and their score
Refetch(e) ==
  fetch_metrics(tickers(universe)[e.pos].ticker, [j \in 1..tries |-> e.info])
Qualifies(e) ==
  \E mm \in {Refetch(e)} :
    /\ mm # NoMetrics
    /\ \E r \in {score(mm, Thresholds, w)} :
         r.score >= min_score /\ r.confidence >= min_confidence

Occurrences(pos) ==
  {j \in 1..Len(results) :
     /\ results[j].pos = pos
     /\ results[j].Ticker = tickers(universe)[pos].ticker
     /\ results[j].Secteur = tickers(universe)[pos].sector}

\* C3: every record scan returns has Score >= min_score and
\* Confiance >= min_confidence, and every pair whose metrics were available
\* and meet both minimums is in the returned list exactly once.
C3_FilterExact ==
  Done =>
    /\ \A j \in 1..Len(results) :
         results[j].Score >= min_score /\ results[j].Confiance >= min_confidence
    /\ \A k \in 1..Len(requests) :
         Qualifies(requests[k]) => Cardinality(Occurrences(requests[k].pos)) = 1

\* a finished scan that kept a pair, dropped one on confidence alone and
\* dropped one on its score
C3_Witness ==
  /\ Done
  /\ \E k \in 1..Len(requests) : Qualifies(requests[k])
  /\ \E k \in 1..Len(requests) :
       /\ Refetch(requests[k]) # NoMetrics
       /\ score(Refetch(requests[k]), Thresholds, w).score >= min_score
       /\ score(Refetch(requests[k]), Thresholds, w).confidence < min_confidence
  /\ \E k \in 1..Len(requests) :
       /\ Refetch(requests[k]) # NoMetrics
       /\ score(Refetch(requests[k]), Thresholds, w).score < min_score

\* C4: the returned list is in descending order of Score, and records of
\* equal Score are in the order of their pairs in the flattened universe.
C4_SortedStable ==
  Done =>
    \A i \in 1..Len(results) : \A j \in 1..Len(results) :
      i < j =>
        /\ results[i].Score >= results[j].Score
        /\ results[i].Score = results[j].Score => results[i].pos < results[j].pos

\* a returned list of three: a later pair moved to the front by its score,
\* followed by two distinct records of equal score in pair order
C4_Witness ==
  /\ Done
  /\ Len(results) = 3
  /\ results[1].pos > results[2].pos
  /\ results[1].Score > results[2].Score
  /\ results[2].Score = results[3].Score
  /\ results[2].Societe # results[3].Societe

\* the four reasons for which fetch_metrics gives no metrics
Unavailable(info) ==
  \/ info = NoInfo
  \/ LET price == safe_float(PyOr(info.regularMarketPrice, info.currentPrice), 0)
         mcap == safe_float(info.marketCap, 0)
     IN  price <= 0 \/ price > 10000 * Unit \/ mcap < 500

SkipExactlyWhenUnavailable ==
  /\ \A k \in 1..Len(requests) : requests[k].skipped <=> Unavailable(requests[k].info)
  /\ \A j \in 1..Len(results) :
       \E k \in 1..Len(requests) :
         requests[k].pos = results[j].pos /\ ~requests[k].skipped
  /\ pc \in {"fetch", "score", "done"}

\* C5: a pair is skipped exactly when the provider failed, or the price is
\* <= 0 or > 10000, or the market cap is < 500 million; whatever the
\* universe and the failures, the scan completes and returns the list of
\* the pairs that qualified.
C5_SkipAndComplete ==
  /\ [](SkipExactlyWhenUnavailable)
  /\ <>(Done /\ Len(requests) = Len(tickers(universe)))

\* a finished scan of three pairs, all skipped: a failed provider, an
\* implausible price and a small capitalisation; the list is empty
C5_Witness ==
  /\ Done
  /\ Len(requests) = 3
  /\ results = <<>>
  /\ \A k \in 1..3 : requests[k].skipped
  /\ requests[1].info = NoInfo
  /\ requests[2].info = InfoPricey
  /\ requests[3].info = InfoSmall

AllSixTags ==
  /\ Len(out.tags) = 6
  /\ \A t \in {"VALUE", "ASSET", "QUALITY", "SAFE", "GROWTH", "DIVIDEND"} :
       Has(out.tags, t)

ScoredScenarioA == Scored /\ m = ScenarioA /\ w = Weights

\* C6 as stated: scenario A gets all six tags, a total above 70 and a
\* confidence of at least 80.
C6_ScenarioA_Above70 ==
  ScoredScenarioA =>
    AllSixTags /\ out.score > 70 * Unit /\ out.confidence >= 80 * Unit

\* C6, amended: scenario A gets all six tags, a total of 68.9 (blocks 67.1,
\* 76, 60, 80 and 40), which is below 70, and a confidence of 90.
C6_ScenarioA ==
  ScoredScenarioA =>
    /\ AllSixTags
    /\ out.details = [valuation |-> 671 * (Unit \div 10),
                      profitability |-> 76 * Unit,
                      financial_health |-> 60 * Unit,
                      growth |-> 80 * Unit,
                      dividend |-> 40 * Unit]
    /\ out.score = 689 * (Unit \div 10)
    /\ out.confidence >= 80 * Unit
    /\ out.confidence = 90 * Unit

C6_Witness == ScoredScenarioA /\ out.score < 70 * Unit /\ AllSixTags

\* the tags the rules give on the sanitized values s
RuleTags(s) ==
  {t \in {"VALUE", "ASSET", "QUALITY", "SAFE", "GROWTH", "DIVIDEND"} :
     \/ t = "VALUE" /\ 0 < s.pe /\ s.pe < 15 * Unit
     \/ t = "ASSET" /\ 0 < s.pb /\ s.pb < 2 * Unit
     \/ t = "QUALITY" /\ s.roe_pct > 20 * Unit /\ s.margin > 10 * (Unit \div 100)
     \/ t = "SAFE" /\ 0 < s.dte_ratio /\ s.dte_ratio < 6 * (Unit \div 10)
     \/ t = "GROWTH" /\ s.rg_pct > 8 * Unit
     \/ t = "DIVIDEND" /\ s.dy_pct >= 2 * Unit}

\* C7: the tags score returns are exactly those of the rules; in
\* particular SAFE requires 0 < debt/equity ratio < 0.60, so a ratio that is
\* zero, absent or negative never carries SAFE.
C7_TagsByRule ==
  Scored =>
    /\ {out.tags[j] : j \in 1..Len(out.tags)} = RuleTags(Sanitized(m))
    /\ Sanitized(m).dte_ratio <= 0 => ~Has(out.tags, "SAFE")

\* the value of a raw multiple, and whether it is a number at all
Valued(x) == x.k \in {"num", "str"}
TermsOf(mm) == ValuationTerms(Sanitized(mm), Thresholds)

\* C8 as stated: a multiple at or beyond a sanity bound (P/E <= 1 or
\* >= 120, P/B <= 0.1 or >= 50, EV/EBITDA <= 1.5 or >= 80) adds nothing to
\* the valuation sub-score.
C8_GateAtOrBeyond ==
  Scored =>
    /\ (Valued(m.pe) /\ (m.pe.v <= Unit \/ m.pe.v >= 120 * Unit))
         => TermsOf(m).pe = 0
    /\ (Valued(m.pb) /\ (m.pb.v <= Unit \div 10 \/ m.pb.v >= 50 * Unit))
         => TermsOf(m).pb = 0
    /\ (Valued(m.ev_ebitda)
          /\ (m.ev_ebitda.v <= 15 * (Unit \div 10) \/ m.ev_ebitda.v >= 80 * Unit))
         => TermsOf(m).ev = 0

\* C8, amended: a multiple strictly below its lower sanity bound, or at or
\* above its upper bound, adds nothing to the valuation sub-score (and the
\* sub-score is the one of the record without that multiple); a multiple
\* exactly at its lower bound (P/E = 1, P/B = 0.1, EV/EBITDA = 1.5) is
\* accepted and earns credit.
C8_GateBeyond ==
  Scored =>
    /\ (Valued(m.pe) /\ (m.pe.v < Unit \/ m.pe.v >= 120 * Unit))
         => /\ TermsOf(m).pe = 0
            /\ out.details.valuation
                 = Valuation(Sanitized([m EXCEPT !.pe = None]), Thresholds)
    /\ (Valued(m.pb) /\ (m.pb.v < Unit \div 10 \/ m.pb.v >= 50 * Unit))
         => /\ TermsOf(m).pb = 0
            /\ out.details.valuation
                 = Valuation(Sanitized([m EXCEPT !.pb = None]), Thresholds)
    /\ (Valued(m.ev_ebitda)
          /\ (m.ev_ebitda.v < 15 * (Unit \div 10) \/ m.ev_ebitda.v >= 80 * Unit))
         => /\ TermsOf(m).ev = 0
            /\ out.details.valuation
                 = Valuation(Sanitized([m EXCEPT !.ev_ebitda = None]), Thresholds)
    /\ (Valued(m.pe) /\ m.pe.v = Unit) => TermsOf(m).pe > 0
    /\ (Valued(m.pb) /\ m.pb.v = Unit \div 10) => TermsOf(m).pb > 0
    /\ (Valued(m.ev_ebitda) /\ m.ev_ebitda.v = 15 * (Unit \div 10))
         => TermsOf(m).ev > 0

\* a P/E of 0.5 in scenario A: the valuation block keeps the P/B term only
C8_Witness ==
  /\ Scored
  /\ m = [ScenarioA EXCEPT !.pe = Num(Unit \div 2)]
  /\ TermsOf(m).pe = 0
  /\ TermsOf(m).pb > 0
  /\ out.details.valuation = 171 * (Unit \div 10)

\* the parsed value of a field, and the credit a field earns in its block
Val(x) == safe_float(x, 0)
RoeCredit(mm) == RoeTerm(Sanitized(mm).roe_pct)
MarginCredit(mm) == MarginTerm(Sanitized(mm).margin, Thresholds)
DebtCredit(mm) == DebtTerm(Sanitized(mm).dte_ratio)

\* C9 as stated: a non-zero value outside its sane range (P/E outside
\* (1,120), P/B outside (0.1,50), EV/EBITDA outside (1.5,80), ROE% outside
\* (-50,80), margin% outside (-30,60), debt/equity ratio > 5, dividend%
\* > 12, revenue growth% outside (-50,80)) earns nothing in its block and
\* is counted as a penalty, for each of the eight fields.
C9_ImplausibleZeroedAndPenalised ==
  Scored =>
    LET s == Sanitized(m)
        p == Penalties(m)
    IN  /\ (Val(m.pe) # 0 /\ (Val(m.pe) < Unit \/ Val(m.pe) > 120 * Unit))
             => (TermsOf(m).pe = 0 /\ p.pe > 0)
        /\ (Val(m.pb) # 0 /\ (Val(m.pb) < Unit \div 10 \/ Val(m.pb) > 50 * Unit))
             => (TermsOf(m).pb = 0 /\ p.pb > 0)
        /\ (Val(m.ev_ebitda) # 0
              /\ (Val(m.ev_ebitda) < 15 * (Unit \div 10) \/ Val(m.ev_ebitda) > 80 * Unit))
             => (TermsOf(m).ev = 0 /\ p.ev_ebitda > 0)
        /\ (s.roe_pct < -50 * Unit \/ s.roe_pct > 80 * Unit)
             => (RoeCredit(m) = 0 /\ p.roe > 0)
        /\ (s.margin_pct < -30 * Unit \/ s.margin_pct > 60 * Unit)
             => (MarginCredit(m) = 0 /\ p.margin > 0)
        /\ s.dte_ratio > 5 * Unit
             => (DebtCredit(m) = 0 /\ p.debt_to_equity > 0)
        /\ s.dy_pct > 12 * Unit
             => (out.details.dividend = 0 /\ p.div_yield > 0)
        /\ (s.rg_pct < -50 * Unit \/ s.rg_pct > 80 * Unit)
             => (out.details.growth = 0 /\ p.rev_growth > 0)

\* C9, amended: a non-zero value strictly outside its sane range (P/E < 1
\* or > 120, P/B < 0.1 or > 50, EV/EBITDA < 1.5 or > 80, ROE% < -50 or
\* > 80, margin% < -30 or > 60, debt/equity ratio > 5, normalized
\* dividend% > 12, revenue growth% < -50 or > 80) is counted as a penalty
\* (12, 8, 10, 10, 10, 10, 12, 8) for each of the eight fields.  It earns
\* nothing in its block when it is a valuation multiple, a debt/equity
\* ratio, or an ROE, margin or growth below its range; an ROE% > 80, a
\* margin% > 60, a dividend% > 12 and a growth% > 80 earn the full credit
\* of their term (50, 50, 100 and 100 points).
C9_ImplausiblePenalised ==
  Scored =>
    LET s == Sanitized(m)
        p == Penalties(m)
    IN  /\ (Val(m.pe) # 0 /\ (Val(m.pe) < Unit \/ Val(m.pe) > 120 * Unit))
             => (TermsOf(m).pe = 0 /\ p.pe = 12)
        /\ (Val(m.pb) # 0 /\ (Val(m.pb) < Unit \div 10 \/ Val(m.pb) > 50 * Unit))
             => (TermsOf(m).pb = 0 /\ p.pb = 8)
        /\ (Val(m.ev_ebitda) # 0
              /\ (Val(m.ev_ebitda) < 15 * (Unit \div 10) \/ Val(m.ev_ebitda) > 80 * Unit))
             => (TermsOf(m).ev = 0 /\ p.ev_ebitda = 10)
        /\ s.dte_ratio > 5 * Unit => (DebtCredit(m) = 0 /\ p.debt_to_equity = 10)
        /\ s.roe_pct < -50 * Unit => (RoeCredit(m) = 0 /\ p.roe = 10)
        /\ s.roe_pct > 80 * Unit => (RoeCredit(m) = 50 * Unit /\ p.roe = 10)
        /\ s.margin_pct < -30 * Unit => (MarginCredit(m) = 0 /\ p.margin = 10)
        /\ s.margin_pct > 60 * Unit => (MarginCredit(m) = 50 * Unit /\ p.margin = 10)
        /\ s.dy_pct > 12 * Unit
             => (out.details.dividend = 100 * Unit /\ p.div_yield = 12)
        /\ s.rg_pct < -50 * Unit => (out.details.growth = 0 /\ p.rev_growth = 8)
        /\ s.rg_pct > 80 * Unit
             => (out.details.growth = 100 * Unit /\ p.rev_growth = 8)

\* every field implausible on the high side: eight penalties (80 in all),
\* no valuation and no debt credit, full profitability, growth and dividend
C9_Witness ==
  /\ Scored
  /\ Val(m.pe) > 120 * Unit /\ Val(m.pb) > 50 * Unit /\ Val(m.ev_ebitda) > 80 * Unit
  /\ Sanitized(m).roe_pct > 80 * Unit /\ Sanitized(m).margin_pct > 60 * Unit
  /\ Sanitized(m).dte_ratio > 5 * Unit /\ Sanitized(m).dy_pct > 12 * Unit
  /\ Sanitized(m).rg_pct > 80 * Unit
  /\ \A j \in 1..Len(keys) : Penalties(m)[keys[j]] > 0
  /\ out.details = [valuation |-> 0, profitability |-> 100 * Unit,
                    financial_health |-> 0, growth |-> 100 * Unit,
                    dividend |-> 100 * Unit]

\* the sub-scores of the scored record with one field replaced
ValuationWith(x) == Valuation(Sanitized([m EXCEPT !.pe = x]), Thresholds)
ProfitabilityWith(y) == Profitability(Sanitized([m EXCEPT !.roe = y]), Thresholds)
InGate(x) == Unit < Val(x) /\ Val(x) < Thresholds.pe_max
RoePct(y) == pct(Val(y))

\* C10: with every other field fixed, (a) of two P/E values in
\* (1, pe_max) the lower one gets a valuation sub-score at least as high,
\* and (b) of two ROE% values > 0 the higher one gets a profitability
\* sub-score at least as high.
C10_Monotone ==
  Scored =>
    /\ \A x \in WidePE :
         (InGate(m.pe) /\ InGate(x)) =>
           /\ Val(m.pe) < Val(x) => out.details.valuation >= ValuationWith(x)
           /\ Val(x) < Val(m.pe) => ValuationWith(x) >= out.details.valuation
    /\ \A y \in WideROE :
         (RoePct(m.roe) > 0 /\ RoePct(y) > 0) =>
           /\ RoePct(m.roe) < RoePct(y) => out.details.profitability <= ProfitabilityWith(y)
           /\ RoePct(y) < RoePct(m.roe) => ProfitabilityWith(y) <= out.details.profitability

\* scenario A with a P/E of 12: a higher P/E in the gate scores strictly
\* lower, a lower one strictly higher; and a lower ROE% scores strictly lower
C10_Witness ==
  /\ Scored
  /\ m = [ScenarioA EXCEPT !.pe = F(12, 0)]
  /\ \E x \in WidePE : InGate(x) /\ Val(x) > Val(m.pe)
                       /\ ValuationWith(x) < out.details.valuation
  /\ \E x \in WidePE : InGate(x) /\ Val(x) < Val(m.pe)
                       /\ ValuationWith(x) > out.details.valuation
  /\ \E y \in WideROE : RoePct(y) > 0 /\ RoePct(y) < RoePct(m.roe)
                        /\ ProfitabilityWith(y) < out.details.profitability

\* ------------------------------------------------------------------------
\* the dividend yield in percent that score and scan work on
DivPct == normalize_yield_to_pct(m.div_yield)

MetricsOf(rec) ==
  Refetch(CHOOSE e \in {requests[k] : k \in 1..Len(requests)} : e.pos = rec.pos)

Absent(x) == x = None

\* C12: in every record scan builds, a display metric (PER, P/B,
\* EV/EBITDA, ROE %, Marge %, Dette/Equity, Div %, Croissance CA %) whose
\* field is absent from the metrics record is "not available" (NaN, or
\* the placeholder of the dividend column) and never the number zero.
C12_AbsentNotZero ==
  \A j \in 1..Len(results) :
    LET rec == results[j]
        mm == MetricsOf(rec)
    IN  /\ Absent(mm.pe) => rec.PER = NaN
        /\ Absent(mm.pb) => rec.PB = NaN
        /\ Absent(mm.ev_ebitda) => rec.EV_EBITDA = NaN
        /\ Absent(mm.roe) => rec.ROE = NaN
        /\ Absent(mm.margin) => rec.Marge = NaN
        /\ Absent(mm.debt_to_equity) => rec.Dette_Equity = NaN
        /\ Absent(mm.div_yield) => (rec.Div = NaN \/ rec.Div_affichage = <<"-">>)
        /\ Absent(mm.rev_growth) => rec.Croissance_CA = NaN

\* ------------------------------------------------------------------------
Written == pc = "text"

\* the positions of the lines of one kind in the text
LinesOf(kind) == {j \in 1..Len(digest) : digest[j].kind = kind}

\* the position of the i-th heading line
HeadingAt(i) ==
  CHOOSE j \in LinesOf("## heading") :
    Cardinality({k \in LinesOf("## heading") : k < j}) = i - 1

\* C13: to_email_markdown(results, top_n) with top_n >= 0 emits exactly
\* min(top_n, len(results)) ticker heading blocks, for the first records
\* of the list in their order, and ends with exactly one disclaimer line;
\* for an empty list the text has the disclaimer and no heading.
C13_DigestBlocks ==
  Written =>
    /\ Cardinality(LinesOf("## heading")) = Min2(top_n, Len(results))
    /\ \A i \in 1..Cardinality(LinesOf("## heading")) :
         digest[HeadingAt(i)].args =
           <<i, results[i].Score_badge, results[i].Ticker, results[i].Secteur,
             results[i].Score, results[i].Confiance_badge, results[i].Confiance>>
    /\ LinesOf("> disclaimer") = {Len(digest)}
    /\ results = <<>> => LinesOf("## heading") = {}

\* a list of three records cut to its first two, with the disclaimer last
C13_Witness ==
  /\ Written
  /\ Len(results) = 3
  /\ top_n = 2
  /\ Cardinality(LinesOf("## heading")) = 2
  /\ digest[HeadingAt(2)].args[3] = results[2].Ticker
  /\ digest[Len(digest)].kind = "> disclaimer"

\* ------------------------------------------------------------------------
Abs(x) == IF x < 0 THEN -x ELSE x

\* the heuristic deciding on the magnitude of x
ByMagnitude(x) == IF Abs(x) <= Unit THEN 100 * x ELSE x

\* C14: pct(x) is 100 * x when |x| <= 1.0 and x when |x| > 1.0, for
\* negative x too (an ROE of -60 stays -60), and it is the ROE value of
\* both the confidence estimate and the score.
C14_PctByMagnitude ==
  Scored =>
    LET x == Val(m.roe)
    IN  /\ pct(x) = ByMagnitude(x)
        /\ Sanitized(m).roe_pct = pct(x)
        /\ Penalties(m).roe # 0 <=>
             (pct(x) # 0 /\ (pct(x) < -50 * Unit \/ pct(x) > 80 * Unit))
        /\ out.details.profitability = Profitability(Sanitized(m), Thresholds)

\* ------------------------------------------------------------------------
\* present and non-zero after parsing
Found(x) == x.k # "none" /\ Val(x) # 0

\* a non-zero value below lo or above hi
Outside(v, lo, hi) == v # 0 /\ (v < lo \/ v > hi)

StatedCompleteness ==
  (100 * Unit * Cardinality({f \in {"pe", "pb", "ev_ebitda", "roe", "margin",
                                    "debt_to_equity", "rev_growth", "div_yield"} :
                              Found(m[f])})) \div 8

StatedPenalties ==
  (IF Outside(Val(m.pe), Unit, 120 * Unit) THEN 12 ELSE 0)
  + (IF Outside(Val(m.pb), Unit \div 10, 50 * Unit) THEN 8 ELSE 0)
  + (IF Outside(Val(m.ev_ebitda), 15 * (Unit \div 10), 80 * Unit) THEN 10 ELSE 0)
  + (IF Outside(pct(Val(m.roe)), -50 * Unit, 80 * Unit) THEN 10 ELSE 0)
  + (IF Outside(100 * Val(m.margin), -30 * Unit, 60 * Unit) THEN 10 ELSE 0)
  + (IF DteRatio(Val(m.debt_to_equity)) > 5 * Unit THEN 10 ELSE 0)
  + (IF DivPct > 12 * Unit THEN 12 ELSE 0)
  + (IF Outside(100 * Val(m.rev_growth), -50 * Unit, 80 * Unit) THEN 8 ELSE 0)

StatedPlausibility == Max2(0, (100 - StatedPenalties) * Unit)

StatedFreshness ==
  Max2(0, (100 - (IF Val(m.price) <= 0 THEN 35 ELSE 0)
               - (IF Val(m.mcap) <= 0 THEN 25 ELSE 0)
               - (IF m.currency \in {NoCurrency, ""} THEN 10 ELSE 0)) * Unit)

\* 0.40 * completeness + 0.40 * plausibility + 0.20 * freshness - 5
StatedBlend ==
  (4 * StatedCompleteness + 4 * StatedPlausibility + 2 * StatedFreshness) \div 10
    - 5 * Unit

PairAt(pos) == tickers(universe)[pos]

\* the requests so far are those of the first pairs of the flattened
\* universe, one each and in order; the pair being scored is the one
\* requested last; every record is that of a requested, available pair
VisitedInOrder ==
  /\ Len(requests) <= Len(tickers(universe))
  /\ \A k \in 1..Len(requests) : requests[k].pos = k
  /\ pc = "fetch" => (idx = Len(requests) + 1 /\ m = NoMetrics)
  /\ pc = "score" =>
       /\ idx = Len(requests)
       /\ ~requests[idx].skipped
       /\ m = Refetch(requests[idx])
       /\ m.ticker = PairAt(idx).ticker
  /\ Done => Len(requests) = Len(tickers(universe))
  /\ \A j \in 1..Len(results) :
       /\ results[j].pos \in 1..Len(requests)
       /\ ~requests[results[j].pos].skipped
       /\ results[j].Ticker = PairAt(results[j].pos).ticker
       /\ results[j].Secteur = PairAt(results[j].pos).sector

\* a request is issued only between two pairs, for the next pair; the
\* step after a successful request scores that pair and appends its
\* record or leaves the list alone, without another request
OnePairAtATime ==
  /\ requests' # requests =>
       /\ pc = "fetch"
       /\ Len(requests') = Len(requests) + 1
       /\ SubSeq(requests', 1, Len(requests)) = requests
       /\ requests'[Len(requests')].pos = Len(requests) + 1
       /\ results' = results
       /\ requests'[Len(requests')].skipped => (pc' = "fetch" /\ idx' = idx + 1)
  /\ pc = "score" =>
       /\ requests' = requests
       /\ out' = score(m, Thresholds, w)
       /\ \/ results' = results
          \/ /\ Len(results') = Len(results) + 1
             /\ SubSeq(results', 1, Len(results)) = results
             /\ results'[Len(results')].pos = idx
       /\ pc' = "fetch"
       /\ idx' = idx + 1

\* C16: during a scan the (sector, ticker) pairs are visited in the order
\* of the flattened universe, exactly one fetch_metrics call is issued per
\* pair, a pair that came back unavailable is not requested again, and a
\* pair is scored and appended or discarded before the next request.
C16_SequentialSinglePass ==
  [](VisitedInOrder) /\ [][OnePairAtATime]_vars

\* a finished scan of three pairs in two sectors: the first appended, the
\* second unavailable, the third scored and discarded
C16_Witness ==
  /\ Done
  /\ Len(requests) = 3
  /\ PairAt(1).sector # PairAt(3).sector
  /\ ~requests[1].skipped /\ requests[2].skipped /\ ~requests[3].skipped
  /\ Len(results) = 1
  /\ results[1].pos = 1

====
